---- MODULE Spec2Model ----
(***************************************************************************)
(* A model of gsheet_utils/reader/reader.py: the column address codec,     *)
(* the range parser, the value converter and read_as_tuples.               *)
(*                                                                         *)
(* Python strings are sequences of code points (ord values):               *)
(*   '!' 33   '-' 45   '.' 46   '0'..'9' 48..57   ':' 58   '@' 64          *)
(*   'A'..'Z' 65..90   'a'..'z' 97..122                                    *)
(* Python values are records tagged by their type: None, str, int, float,  *)
(* date.  A call either returns a value or raises an exception.            *)
(***************************************************************************)
EXTENDS Integers, Sequences, FiniteSets, TLC

VARIABLES call, args, ret, column_to_data_index

vars == <<call, args, ret, column_to_data_index>>

(***************************************************************************)
(* Bounds of the explored inputs.                                          *)
(***************************************************************************)
\* longest column label handed to _col_letter_to_index
MaxLabelLen == 3
\* largest offset handed to _index_to_col_letter (ZZ is 701, AAA is 702)
MaxIndex == 710
\* longest range expression handed to _get_column_range_info
MaxRangeLen == 5
\* most rows the fetch returns to read_as_tuples (the header included)
MaxRows == 3

BoundedSeq(S, n) == UNION {[1..k -> S] : k \in 0..n}

(***************************************************************************)
(* Python values.                                                          *)
(***************************************************************************)
NoneV == [t |-> "None"]
StrV(s) == [t |-> "str", s |-> s]
IntV(n) == [t |-> "int", v |-> n]
\* the float sign * num / 10^scale
FloatV(sign, num, scale) == [t |-> "float", sign |-> sign, num |-> num, scale |-> scale]
DateV(y, m, d) == [t |-> "date", y |-> y, m |-> m, d |-> d]

Return(v) == [kind |-> "return", val |-> v]
\* an exception of class exc; value and dtype are the two fields the message of
\* _convert_value interpolates (NoneV when the message has neither)
Raise(exc, value, dtype) == [kind |-> "raise", exc |-> exc, value |-> value, dtype |-> dtype]

(***************************************************************************)
(* Characters: str.upper, str.isalpha, str.isdigit on the ASCII range.     *)
(***************************************************************************)
IsUpperLetter(c) == c \in 65..90
IsLowerLetter(c) == c \in 97..122
IsAlpha(c) == IsUpperLetter(c) \/ IsLowerLetter(c)
IsDigit(c) == c \in 48..57
UpperChar(c) == IF IsLowerLetter(c) THEN c - 32 ELSE c
Upper(s) == [i \in 1..Len(s) |-> UpperChar(s[i])]

(***************************************************************************)
(* Column address codec.                                                   *)
(***************************************************************************)
RECURSIVE LetterLoop(_, _)
\* for char in letter: result = result * 26 + (ord(char) - ord('A') + 1)
LetterLoop(letter, result) ==
    IF letter = <<>> THEN result
    ELSE LetterLoop(Tail(letter), result * 26 + (Head(letter) - 65 + 1))

\* faulty variant: the letter.upper() of line 45 is dropped
ColLetterToIndexNoUpper(letter) == LetterLoop(letter, 0) - 1

_col_letter_to_index(letter) == LetterLoop(Upper(letter), 0) - 1

RECURSIVE IndexLoop(_, _)
\* while index > 0: index -= 1; result = chr(index % 26 + ord('A')) + result; index //= 26
IndexLoop(index, result) ==
    IF index > 0
    THEN IndexLoop((index - 1) \div 26, <<((index - 1) % 26) + 65>> \o result)
    ELSE result

_index_to_col_letter(index) == IndexLoop(index + 1, <<>>)

(***************************************************************************)
(* Range parsing.                                                          *)
(***************************************************************************)
Contains(s, c) == \E i \in 1..Len(s) : s[i] = c

\* s.split(c)[-1]: what follows the last c of s (s itself when it holds no c)
LastPiece(s, c) ==
    IF Contains(s, c)
    THEN LET p == CHOOSE i \in 1..Len(s) : s[i] = c /\ \A j \in (i+1)..Len(s) : s[j] # c
         IN SubSeq(s, p + 1, Len(s))
    ELSE s

Count(s, c) == Cardinality({i \in 1..Len(s) : s[i] = c})

\* ''.join(c for c in s if c.isalpha())
AlphaOnly(s) == SelectSeq(s, IsAlpha)

RECURSIVE LeadingAlpha(_)
\* the contiguous leading letters of s
LeadingAlpha(s) ==
    IF s = <<>> \/ ~IsAlpha(Head(s)) THEN <<>>
    ELSE <<Head(s)>> \o LeadingAlpha(Tail(s))

\* lines 65-68: range_part
RangePart(range_name) == LastPiece(range_name, 33)

\* faulty variant: only the leading letters of a side are kept
ColumnOfSideLeading(side) == LeadingAlpha(side)

\* lines 73, 74, 77: the letters of one side of the span
ColumnOfSide(side) == AlphaOnly(side)

\* a returned (start_col, end_col)
Pair(a, b) == [kind |-> "return", start_col |-> a, end_col |-> b]

_get_column_range_info(range_name) ==
    LET range_part == RangePart(range_name)
    IN IF Contains(range_part, 58)
       THEN IF Count(range_part, 58) = 1
            THEN LET p == CHOOSE i \in 1..Len(range_part) : range_part[i] = 58
                 IN Pair(ColumnOfSide(SubSeq(range_part, 1, p - 1)),
                         ColumnOfSide(SubSeq(range_part, p + 1, Len(range_part))))
            \* start_col, end_col = range_part.split(':') has too many values to unpack
            ELSE Raise("ValueError", NoneV, NoneV)
       ELSE Pair(ColumnOfSide(range_part), ColumnOfSide(range_part))

RECURSIVE ColumnsLoop(_, _)
\* for i in range(i, end_idx + 1): columns.append(_index_to_col_letter(i))
ColumnsLoop(i, end_idx) ==
    IF i > end_idx THEN <<>>
    ELSE <<_index_to_col_letter(i)>> \o ColumnsLoop(i + 1, end_idx)

_get_columns_in_range(start_col, end_col) ==
    ColumnsLoop(_col_letter_to_index(start_col), _col_letter_to_index(end_col))

(***************************************************************************)
(* Type casters.  int, float and strptime are modelled on strings of       *)
(* digits, letters, '+', '-' and '.'; surrounding white space, '_' digit   *)
(* separators, exponents and the words inf and nan are outside the cells   *)
(* explored here.                                                          *)
(***************************************************************************)
AllDigits(s) == s # <<>> /\ \A i \in 1..Len(s) : IsDigit(s[i])

RECURSIVE DigitsValue(_, _)
DigitsValue(s, acc) ==
    IF s = <<>> THEN acc ELSE DigitsValue(Tail(s), acc * 10 + (Head(s) - 48))

HasSign(s) == s # <<>> /\ Head(s) \in {43, 45}
Unsigned(s) == IF HasSign(s) THEN Tail(s) ELSE s
SignOf(s) == IF s # <<>> /\ Head(s) = 45 THEN -1 ELSE 1

\* what a caster raises; _convert_value replaces it by its own ValueError
CastFails == Raise("ValueError", NoneV, NoneV)

\* str(value)
CastStr(value) == Return(StrV(value))

\* int(value)
CastInt(value) ==
    IF AllDigits(Unsigned(value))
    THEN Return(IntV(SignOf(value) * DigitsValue(Unsigned(value), 0)))
    ELSE CastFails

\* float(value)
CastFloat(value) ==
    LET body == Unsigned(value)
        dots == {i \in 1..Len(body) : body[i] = 46}
        p == IF dots = {} THEN Len(body) + 1 ELSE CHOOSE i \in dots : TRUE
        whole == SubSeq(body, 1, p - 1)
        frac == SubSeq(body, p + 1, Len(body))
    IN IF /\ Cardinality(dots) <= 1
          /\ \A i \in 1..Len(body) : IsDigit(body[i]) \/ body[i] = 46
          /\ whole \o frac # <<>>
       THEN Return(FloatV(SignOf(value), DigitsValue(whole \o frac, 0), Len(frac)))
       ELSE CastFails

IsLeap(y) == (y % 4 = 0 /\ y % 100 # 0) \/ y % 400 = 0
DaysInMonth(y, m) ==
    IF m = 2 THEN (IF IsLeap(y) THEN 29 ELSE 28)
    ELSE IF m \in {4, 6, 9, 11} THEN 30 ELSE 31

\* datetime.datetime.strptime(value, fmt).date() for a format of three numeric
\* fields joined by sep: year first (%Y sep %m sep %d) or day first (%d sep %m sep %Y)
Strptime(value, sep, year_first) ==
    LET seps == {i \in 1..Len(value) : value[i] = sep}
    IN IF Cardinality(seps) # 2 THEN CastFails
       ELSE LET p1 == CHOOSE i \in seps : \A j \in seps : i <= j
                p2 == CHOOSE i \in seps : \A j \in seps : j <= i
                f1 == SubSeq(value, 1, p1 - 1)
                f2 == SubSeq(value, p1 + 1, p2 - 1)
                f3 == SubSeq(value, p2 + 1, Len(value))
                ys == IF year_first THEN f1 ELSE f3
                ds == IF year_first THEN f3 ELSE f1
            IN IF /\ AllDigits(ys) /\ Len(ys) = 4
                  /\ AllDigits(f2) /\ Len(f2) <= 2
                  /\ AllDigits(ds) /\ Len(ds) <= 2
               THEN LET y == DigitsValue(ys, 0)
                        m == DigitsValue(f2, 0)
                        d == DigitsValue(ds, 0)
                    IN IF y >= 1 /\ m \in 1..12 /\ d >= 1 /\ d <= DaysInMonth(y, m)
                       THEN Return(DateV(y, m, d))
                       ELSE CastFails
               ELSE CastFails

\* the formats "%Y-%m-%d", "%Y.%m.%d", "%d.%m.%Y", tried in this order
_parse_date(value) ==
    LET a == Strptime(value, 45, TRUE)
        b == Strptime(value, 46, TRUE)
        c == Strptime(value, 46, FALSE)
    IN IF a.kind = "return" THEN a
       ELSE IF b.kind = "return" THEN b
       ELSE IF c.kind = "return" THEN c
       ELSE CastFails

\* the keys of _TYPE_CASTERS
SupportedTypes == {"str", "int", "float", "date"}

\* _TYPE_CASTERS[dtype](value), for a dtype that is a key
_TYPE_CASTERS(dtype, value) ==
    CASE dtype = "str" -> CastStr(value)
      [] dtype = "int" -> CastInt(value)
      [] dtype = "float" -> CastFloat(value)
      [] dtype = "date" -> _parse_date(value)

\* lines 37-40: the lookup and the caster's call, any exception of either
\* (the KeyError of a missing key too) re-raised as a ValueError whose
\* message holds value and dtype
CastOrRaise(value, dtype) ==
    IF dtype \notin SupportedTypes THEN Raise("ValueError", value, dtype)
    ELSE LET r == _TYPE_CASTERS(dtype, value.s)
         IN IF r.kind = "raise" THEN Raise("ValueError", value, dtype) ELSE r

\* faulty variant: the caster is looked up before the null test
ConvertValueLookupFirst(value, dtype) ==
    IF dtype \notin SupportedTypes THEN Raise("ValueError", value, dtype)
    ELSE IF value = StrV(<<>>) \/ value = NoneV THEN Return(NoneV)
    ELSE CastOrRaise(value, dtype)

\* faulty variant: the null test is "value is None", the empty string goes on to the caster
ConvertValueNoneOnly(value, dtype) ==
    IF value = NoneV THEN Return(NoneV) ELSE CastOrRaise(value, dtype)

\* faulty variant: a dtype that is no key yields None (a .get lookup with a default)
ConvertValueLenient(value, dtype) ==
    IF value = StrV(<<>>) \/ value = NoneV THEN Return(NoneV)
    ELSE IF dtype \notin SupportedTypes THEN Return(NoneV)
    ELSE CastOrRaise(value, dtype)

_convert_value(value, dtype) ==
    IF value = StrV(<<>>) \/ value = NoneV THEN Return(NoneV)
    ELSE CastOrRaise(value, dtype)

(***************************************************************************)
(* read_as_tuples.  dict_columns is the sequence of the dict's items, in   *)
(* insertion order: records [col, dtype] with distinct col.  values is the *)
(* list of rows of the fetch's result, each row a list of strings.         *)
(***************************************************************************)
Min(S) == CHOOSE x \in S : \A y \in S : x <= y

\* lines 146-149: all_range_columns.index(col), or None
DataIndex(col, all_range_columns) ==
    LET at == {i \in 1..Len(all_range_columns) : all_range_columns[i] = col}
    IN IF at # {} THEN IntV(Min(at) - 1) ELSE NoneV

\* lines 144-149
ColumnToDataIndex(dict_columns, all_range_columns) ==
    [k \in 1..Len(dict_columns) |-> DataIndex(dict_columns[k].col, all_range_columns)]

\* lines 156-159: val
CellValue(row, data_idx) ==
    IF data_idx # NoneV /\ data_idx.v < Len(row)
    THEN StrV(row[data_idx.v + 1])
    ELSE NoneV

\* the first exception of a sequence of call results, or Return of their values
Collect(results) ==
    LET raised == {i \in 1..Len(results) : results[i].kind = "raise"}
    IN IF raised # {} THEN results[Min(raised)]
       ELSE Return([i \in 1..Len(results) |-> results[i].val])

\* lines 153-161: tuple(converted) of one row
ConvertRow(row, dict_columns, data_index) ==
    Collect([k \in 1..Len(dict_columns) |->
                _convert_value(CellValue(row, data_index[k]), dict_columns[k].dtype)])

\* faulty variant: the header is converted with the rest
DataRowsWithHeader(values) == values

\* line 152: values[1:]
DataRows(values) == Tail(values)

\* faulty variant: a row that fails to convert is skipped and the rest returned
ConvertRowsSkipBad(rows, dict_columns, data_index) ==
    LET each == [i \in 1..Len(rows) |-> ConvertRow(rows[i], dict_columns, data_index)]
    IN Return([i \in 1..Len(SelectSeq(each, LAMBDA r : r.kind = "return")) |->
                  SelectSeq(each, LAMBDA r : r.kind = "return")[i].val])

\* lines 151-163: rows
ConvertRows(rows, dict_columns, data_index) ==
    Collect([i \in 1..Len(rows) |-> ConvertRow(rows[i], dict_columns, data_index)])

\* faulty variant: the header is read before the emptiness test
EmptyResultIndexError == Raise("IndexError", NoneV, NoneV)

\* lines 137-138: return []
EmptyResult == Return(<<>>)

\* the result of the call, and the column_to_data_index it computed on the way
\* (<<>> when the call ended before line 144)
read_as_tuples(range_name, dict_columns, values) ==
    IF values = <<>> THEN [ret |-> EmptyResult, column_to_data_index |-> <<>>]
    ELSE LET info == _get_column_range_info(range_name)
         IN IF info.kind = "raise" THEN [ret |-> info, column_to_data_index |-> <<>>]
            ELSE LET all_range_columns ==
                         _get_columns_in_range(info.start_col, info.end_col)
                     data_index == ColumnToDataIndex(dict_columns, all_range_columns)
                 IN [ret |-> ConvertRows(DataRows(values), dict_columns, data_index),
                     column_to_data_index |-> data_index]

(***************************************************************************)
(* The inputs explored.                                                    *)
(***************************************************************************)
\* characters of the labels: '1' '@' 'A' 'B' 'Z' 'a' 'z'
LabelChars == {49, 64, 65, 66, 90, 97, 122}
Labels == BoundedSeq(LabelChars, MaxLabelLen)
Indexes == (-2)..MaxIndex

\* characters of the range expressions: '!' '1' ':' 'A' 'b'
RangeChars == {33, 49, 58, 65, 98}
RangeExpressions == BoundedSeq(RangeChars, MaxRangeLen)

S_42 == <<52, 50>>
S_7 == <<55>>
S_minus5 == <<45, 53>>
S_oops == <<111, 111, 112, 115>>
S_hello == <<104, 101, 108, 108, 111>>
S_3_14 == <<51, 46, 49, 52>>
S_2025_08_19 == <<50, 48, 50, 53, 45, 48, 56, 45, 49, 57>>
S_2025dot08dot19 == <<50, 48, 50, 53, 46, 48, 56, 46, 49, 57>>
S_19dot08dot2025 == <<49, 57, 46, 48, 56, 46, 50, 48, 50, 53>>
S_2025_02_30 == <<50, 48, 50, 53, 45, 48, 50, 45, 51, 48>>

\* the raw values handed to _convert_value
RawValues ==
    {NoneV} \cup {StrV(s) : s \in {<<>>, S_42, S_7, S_minus5, S_oops, S_hello, S_3_14,
                                   S_2025_08_19, S_2025dot08dot19, S_19dot08dot2025,
                                   S_2025_02_30}}

\* the dtype strings handed in: the four keys of _TYPE_CASTERS and one that is no key
DTypes == SupportedTypes \cup {"bool"}

\* range_name of a read: "B:E", "S!B:E", "B2:E9", "b:e", "A:C", "C1"
R_B_E == <<66, 58, 69>>
R_S_B_E == <<83, 33, 66, 58, 69>>
R_B2_E9 == <<66, 50, 58, 69, 57>>
R_b_e == <<98, 58, 101>>
R_A_C == <<65, 58, 67>>
R_C1 == <<67, 49>>
RangeNames == {R_B_E, R_S_B_E, R_B2_E9, R_b_e, R_A_C, R_C1}

Item(col, dtype) == [col |-> col, dtype |-> dtype]
\* {"B": "str", "D": "int"}
M_B_D == <<Item(<<66>>, "str"), Item(<<68>>, "int")>>
\* {"D": "int", "B": "str"}
M_D_B == <<Item(<<68>>, "int"), Item(<<66>>, "str")>>
\* {"A": "date", "B": "int", "C": "str"}
M_A_B_C == <<Item(<<65>>, "date"), Item(<<66>>, "int"), Item(<<67>>, "str")>>
\* {"Z": "int", "B": "float"}
M_Z_B == <<Item(<<90>>, "int"), Item(<<66>>, "float")>>
\* {"c": "int"}
M_c == <<Item(<<99>>, "int")>>
\* {"C": "bool"}
M_C_bool == <<Item(<<67>>, "bool")>>
\* {"Z": "bool", "E": "bool", "C": "str"}
M_Z_E_C == <<Item(<<90>>, "bool"), Item(<<69>>, "bool"), Item(<<67>>, "str")>>
\* {}
M_empty == <<>>
ColumnMaps == {M_B_D, M_D_B, M_A_B_C, M_Z_B, M_c, M_C_bool, M_Z_E_C, M_empty}

\* rows of a fetched result; the data source omits trailing empty cells
Row0 == <<>>
Row1 == <<S_hello>>
Row2 == <<S_42, S_oops>>
Row3 == <<S_oops, S_42, S_7>>
Row4 == <<S_2025_08_19, S_42, S_hello>>
Row5 == <<S_19dot08dot2025, <<>>, S_3_14, S_minus5>>
Row6 == <<<<>>, S_7>>
Rows == {Row0, Row1, Row2, Row3, Row4, Row5, Row6}
FetchResults == BoundedSeq(Rows, MaxRows)

(***************************************************************************)
(* The calls.  Each call is one step from the state before any call.       *)
(***************************************************************************)
Init ==
    /\ call = "none"
    /\ args = <<>>
    /\ ret = NoneV
    /\ column_to_data_index = <<>>

CallColLetterToIndex ==
    /\ call = "none"
    /\ \E letter \in Labels :
        /\ call' = "_col_letter_to_index"
        /\ args' = [letter |-> letter]
        /\ ret' = Return(IntV(_col_letter_to_index(letter)))
    /\ UNCHANGED column_to_data_index

CallIndexToColLetter ==
    /\ call = "none"
    /\ \E index \in Indexes :
        /\ call' = "_index_to_col_letter"
        /\ args' = [index |-> index]
        /\ ret' = Return(StrV(_index_to_col_letter(index)))
    /\ UNCHANGED column_to_data_index

CallGetColumnRangeInfo ==
    /\ call = "none"
    /\ \E range_name \in RangeExpressions :
        /\ call' = "_get_column_range_info"
        /\ args' = [range_name |-> range_name]
        /\ ret' = _get_column_range_info(range_name)
    /\ UNCHANGED column_to_data_index

CallConvertValue ==
    /\ call = "none"
    /\ \E value \in RawValues, dtype \in DTypes :
        /\ call' = "_convert_value"
        /\ args' = [value |-> value, dtype |-> dtype]
        /\ ret' = _convert_value(value, dtype)
    /\ UNCHANGED column_to_data_index

CallReadAsTuples ==
    /\ call = "none"
    /\ \E range_name \in RangeNames, dict_columns \in ColumnMaps, values \in FetchResults :
        LET r == read_as_tuples(range_name, dict_columns, values)
        IN /\ call' = "read_as_tuples"
           /\ args' = [range_name |-> range_name, dict_columns |-> dict_columns,
                       values |-> values]
           /\ ret' = r.ret
           /\ column_to_data_index' = r.column_to_data_index

Next ==
    \/ CallColLetterToIndex
    \/ CallIndexToColLetter
    \/ CallGetColumnRangeInfo
    \/ CallConvertValue
    \/ CallReadAsTuples

Spec == Init /\ [][Next]_vars

(***************************************************************************)
(* Properties.                                                             *)
(***************************************************************************)
IsLetterOnly(s) == s # <<>> /\ \A i \in 1..Len(s) : IsAlpha(s[i])

\* C1: the codec round-trips: the label of an offset n >= 0 converts back to n,
\* the offset of a non-empty letter-only string converts back to the string in
\* upper case, and A, Z, AA, AB are 0, 25, 26, 27.
C1_CodecRoundTrip ==
    /\ (call = "_index_to_col_letter" /\ args.index >= 0)
          => /\ IsLetterOnly(ret.val.s)
             /\ _col_letter_to_index(ret.val.s) = args.index
    /\ (call = "_col_letter_to_index" /\ IsLetterOnly(args.letter))
          => /\ ret.val.v >= 0
             /\ _index_to_col_letter(ret.val.v) = Upper(args.letter)
    /\ (call = "_col_letter_to_index" /\ args.letter = <<65>>) => ret.val.v = 0
    /\ (call = "_col_letter_to_index" /\ args.letter = <<90>>) => ret.val.v = 25
    /\ (call = "_col_letter_to_index" /\ args.letter = <<65, 65>>) => ret.val.v = 26
    /\ (call = "_col_letter_to_index" /\ args.letter = <<65, 66>>) => ret.val.v = 27

\* C1 witness: "aB" was converted, to 27
C1_Witness ==
    call = "_col_letter_to_index" /\ args.letter = <<97, 66>> /\ ret = Return(IntV(27))

\* the offsets of the two ends of the span of a read's range_name
SpanStart(range_name) == _col_letter_to_index(_get_column_range_info(range_name).start_col)
SpanEnd(range_name) == _col_letter_to_index(_get_column_range_info(range_name).end_col)
InSpan(col, range_name) ==
    /\ SpanStart(range_name) <= _col_letter_to_index(col)
    /\ _col_letter_to_index(col) <= SpanEnd(range_name)

\* C2: in a read of a non-empty result, every key K of dict_columns resolves to
\* offset(K) - offset(S) when offset(K) lies within the span S..E of the range,
\* and to None otherwise.
C2_OffsetRelativeToSpan ==
    (call = "read_as_tuples" /\ args.values # <<>>)
      => \A k \in 1..Len(args.dict_columns) :
            LET col == args.dict_columns[k].col
            IN column_to_data_index[k] =
                 IF InSpan(col, args.range_name)
                 THEN IntV(_col_letter_to_index(col) - SpanStart(args.range_name))
                 ELSE NoneV

\* the value read_as_tuples hands to _convert_value for key k of row
Addressed(row, k) == CellValue(row, column_to_data_index[k])
\* what converting it gives
Converted(row, k) == _convert_value(Addressed(row, k), args.dict_columns[k].dtype)

\* C3: a read of k >= 1 rows whose data cells all convert returns k-1 tuples,
\* the i-th built from row i+1, one field per item of dict_columns, in its
\* order; the first row is not converted.
C3_HeaderDroppedOrderKept ==
    (/\ call = "read_as_tuples"
     /\ args.values # <<>>
     /\ \A i \in 2..Len(args.values), k \in 1..Len(args.dict_columns) :
           Converted(args.values[i], k).kind = "return")
      => /\ ret.kind = "return"
         /\ Len(ret.val) = Len(args.values) - 1
         /\ \A i \in 1..Len(ret.val) :
               /\ Len(ret.val[i]) = Len(args.dict_columns)
               /\ \A k \in 1..Len(args.dict_columns) :
                     ret.val[i][k] = Converted(args.values[i + 1], k).val
         /\ (/\ args.range_name = R_A_C
             /\ args.dict_columns = M_A_B_C
             /\ args.values = <<Row3, Row4, Row5>>)
               => ret.val = << <<DateV(2025, 8, 19), IntV(42), StrV(S_hello)>>,
                               <<DateV(2025, 8, 19), NoneV, StrV(S_3_14)>> >>

\* C3 witness: three rows were read, the header holding "oops" in the date
\* column, and two tuples came back
C3_Witness ==
    /\ call = "read_as_tuples"
    /\ args.range_name = R_A_C
    /\ args.dict_columns = M_A_B_C
    /\ args.values = <<Row3, Row4, Row5>>
    /\ ret.kind = "return"
    /\ Len(ret.val) = 2

\* key k of the read is absent from row: it is outside the span, or its offset
\* is no position of the row
Absent(row, k) ==
    \/ ~InSpan(args.dict_columns[k].col, args.range_name)
    \/ column_to_data_index[k] = NoneV
    \/ column_to_data_index[k].v >= Len(row)

\* C4: an absent column is no error.  When the cells that are present all
\* convert, the read returns, and every field of an absent column is None
\* whatever its dtype; when the read raises, it is over a cell that is present.
C4_AbsentColumnIsNull ==
    (call = "read_as_tuples" /\ args.values # <<>>)
      => /\ (\A i \in 2..Len(args.values), k \in 1..Len(args.dict_columns) :
                Absent(args.values[i], k) \/ Converted(args.values[i], k).kind = "return")
               => /\ ret.kind = "return"
                  /\ \A i \in 2..Len(args.values), k \in 1..Len(args.dict_columns) :
                        Absent(args.values[i], k) => ret.val[i - 1][k] = NoneV
         /\ ret.kind = "raise"
               => \E i \in 2..Len(args.values), k \in 1..Len(args.dict_columns) :
                     /\ ~Absent(args.values[i], k)
                     /\ ret.value = Addressed(args.values[i], k)
                     /\ ret.dtype = args.dict_columns[k].dtype

\* C4 witness: keys Z (outside B:E) and E (past the end of the row), both of a
\* dtype that is no caster, came back None
C4_Witness ==
    /\ call = "read_as_tuples"
    /\ args.range_name = R_B_E
    /\ args.dict_columns = M_Z_E_C
    /\ args.values = <<Row0, Row2>>
    /\ ret = Return(<< <<NoneV, NoneV, StrV(S_oops)>> >>)

\* the cells of the data rows that dict_columns addresses, are not empty and
\* do not parse as their column's dtype
BadCells ==
    {c \in (2..Len(args.values)) \X (1..Len(args.dict_columns)) :
        /\ Addressed(args.values[c[1]], c[2]) \notin {NoneV, StrV(<<>>)}
        /\ CastOrRaise(Addressed(args.values[c[1]], c[2]),
                       args.dict_columns[c[2]].dtype).kind = "raise"}

\* C5: a read with a bad cell raises a ValueError that names the cell's raw
\* value and its dtype, and returns nothing.
C5_NoPartialResult ==
    (call = "read_as_tuples" /\ args.values # <<>> /\ BadCells # {})
      => /\ ret.kind = "raise"
         /\ ret.exc = "ValueError"
         /\ \E c \in BadCells :
               /\ ret.value = Addressed(args.values[c[1]], c[2])
               /\ ret.dtype = args.dict_columns[c[2]].dtype

\* C5 witness: the first data row converts, the second holds "oops" in the
\* date column, and the read raised over it
C5_Witness ==
    /\ call = "read_as_tuples"
    /\ args.range_name = R_A_C
    /\ args.dict_columns = M_A_B_C
    /\ args.values = <<Row0, Row4, Row3>>
    /\ ret = Raise("ValueError", StrV(S_oops), "date")

\* C6: _convert_value returns None for "" and for None whatever the dtype, and
\* returns a non-empty string unchanged for dtype str.
C6_NullShortCircuit ==
    call = "_convert_value"
      => /\ args.value \in {NoneV, StrV(<<>>)} => ret = Return(NoneV)
         /\ (args.value \notin {NoneV, StrV(<<>>)} /\ args.dtype = "str")
               => ret = Return(args.value)

\* C6 witness: "" was converted with a dtype that is no caster, to None
C6_Witness ==
    /\ call = "_convert_value"
    /\ args = [value |-> StrV(<<>>), dtype |-> "bool"]
    /\ ret = Return(NoneV)

\* C7: _col_letter_to_index raises for the empty string and for a string with
\* a character that is no letter; it returns no integer for them.
C7_InvalidLabelRaises ==
    (call = "_col_letter_to_index" /\ ~IsLetterOnly(args.letter)) => ret.kind = "raise"

\* the two sides of the span of a range expression with at most one ':'
SpanOf(range_name) == LastPiece(range_name, 33)
LeftSide(range_name) ==
    IF Contains(SpanOf(range_name), 58)
    THEN SubSeq(SpanOf(range_name), 1,
                (CHOOSE i \in 1..Len(SpanOf(range_name)) : SpanOf(range_name)[i] = 58) - 1)
    ELSE SpanOf(range_name)
RightSide(range_name) ==
    IF Contains(SpanOf(range_name), 58)
    THEN SubSeq(SpanOf(range_name),
                (CHOOSE i \in 1..Len(SpanOf(range_name)) : SpanOf(range_name)[i] = 58) + 1,
                Len(SpanOf(range_name)))
    ELSE SpanOf(range_name)

\* C8 as stated: what follows the last '!' is split at ':', and of each side
\* the contiguous leading letters are the column.
C8_LeadingLettersKept ==
    (call = "_get_column_range_info" /\ Count(SpanOf(args.range_name), 58) <= 1)
      => ret = Pair(LeadingAlpha(LeftSide(args.range_name)),
                    LeadingAlpha(RightSide(args.range_name)))

\* C8 amended: what follows the last '!' is split at ':', and of each side all
\* the letters, in their order, are the column, the other characters dropped
\* wherever they stand; without ':' both columns are the letters of the whole;
\* with more than one ':' the call raises a ValueError.
C8_AllLettersKept ==
    call = "_get_column_range_info"
      => IF Count(SpanOf(args.range_name), 58) <= 1
         THEN ret = Pair(AlphaOnly(LeftSide(args.range_name)),
                         AlphaOnly(RightSide(args.range_name)))
         ELSE ret.kind = "raise" /\ ret.exc = "ValueError"

\* C8 witness: "!1A:b" was parsed, to ("A", "b")
C8_Witness ==
    /\ call = "_get_column_range_info"
    /\ args.range_name = <<33, 49, 65, 58, 98>>
    /\ ret = Pair(<<65>>, <<98>>)

\* C9: a read whose fetch returns no rows returns the empty list.
C9_EmptyFetchEmptyResult ==
    (call = "read_as_tuples" /\ args.values = <<>>) => ret = Return(<<>>)

\* C9 witness: a read of "S!B:E" fetched no rows and returned []
C9_Witness ==
    /\ call = "read_as_tuples"
    /\ args.range_name = R_S_B_E
    /\ args.dict_columns = M_C_bool
    /\ args.values = <<>>
    /\ ret = Return(<<>>)

\* the class of the exception of a value that does not parse
ConversionErrorClass == _convert_value(StrV(S_oops), "int").exc

\* C10 as stated: a non-empty value with a dtype outside the four raises an
\* exception of another class than a value that does not parse.
C10_UnsupportedTypeOwnError ==
    (/\ call = "_convert_value"
     /\ args.value \notin {NoneV, StrV(<<>>)}
     /\ args.dtype \notin {"str", "int", "float", "date"})
      => ret.kind = "raise" /\ ret.exc # ConversionErrorClass

\* C10 amended: a non-empty value with a dtype outside the four raises the
\* ValueError of a failed conversion, naming the value and the dtype.
C10_UnsupportedTypeValueError ==
    (/\ call = "_convert_value"
     /\ args.value \notin {NoneV, StrV(<<>>)}
     /\ args.dtype \notin {"str", "int", "float", "date"})
      => /\ ret = Raise("ValueError", args.value, args.dtype)
         /\ ret.exc = ConversionErrorClass

\* C10 witness: "42" was converted with dtype "bool" and the call raised
C10_Witness ==
    /\ call = "_convert_value"
    /\ args = [value |-> StrV(S_42), dtype |-> "bool"]
    /\ ret.kind = "raise"

====
